---- MODULE Spec2Model ----
(***************************************************************************)
(* Model of the OrganizePictures media pipeline.                           *)
(*                                                                         *)
(*   Spec      the orchestrator OrganizePictures.run() of                  *)
(*             organize_pictures/__init__.py over a small file system and  *)
(*             the sqlite hash store, run several times in a row, with a   *)
(*             kill of the process and an edit of the source tree as the   *)
(*             environment's steps.                                        *)
(*   SpecDate  the date resolution of one media object: TruMedia.date_taken *)
(*             (organize_pictures/TruMedia.py) and TruImage.__init__ with   *)
(*             TruImage.date_taken (organize_pictures/TruImage.py), over    *)
(*             every small combination of sidecar and date tags.            *)
(***************************************************************************)
EXTENDS Integers, Sequences, FiniteSets, TLC

----------------------------------------------------------------------------
(* Bounds of the model *)

\* number of source base names ("a", "b", ...) a source tree may hold
MaxFiles == 2
\* number of different pixel / sample contents
MaxPix == 2
\* number of process invocations (a killed one counts)
MaxRuns == 3
\* number of times the process is killed in the middle of run()
MaxCrashes == 1
\* number of times the user changes the source tree between invocations
MaxEdits == 1
\* the dates a tag or a sidecar of SpecDate may hold are 0 .. MaxDate
MaxDate == 1
\* number of copies that raise within one invocation
MaxFaults == 1

----------------------------------------------------------------------------
(* Values *)

\* Python's None (date_time_obj = None, image_hash None, dict.get miss)
None == -1

\* None where a path is expected (new_file_info.get(...) of an absent key)
NoPath == [loc |-> "none", stem |-> 0, ext |-> "", json |-> FALSE]

\* Dates are seconds counted from a fixed instant.
\* The date the source files' metadata holds when it holds one.
ExifDate == 0
\* The modification time of every source file.
MtimeOfSource == 1
\* photoTakenTime.timestamp of a sidecar that holds one.
JsonDate == 2

\* How a date tag's text is laid out.  ENCODED_DATE_FORMAT is the one layout
\* _get_date_taken parses; ExifLayout is the layout of the EXIF standard,
\* which is also how exiftool stores every date it is given to write.
ENCODED_DATE_FORMAT == "%Y-%m-%d %H:%M:%S"
ExifLayout == "%Y:%m:%d %H:%M:%S"

\* MEDIA_TYPES
ImageExts == <<".jpg", ".jpeg", ".png", ".heic">>
VideoExts == <<".mp4", ".mpg", ".mov", ".m4v", ".mts", ".mkv">>
IMG_CONVERT_EXTS == {".heic"}
IMG_CHANGE_EXTS == {".jpeg"}
VID_CONVERT_EXTS == {".mpg", ".mov", ".m4v", ".mts", ".mkv"}
PREFERRED_IMAGE_EXT == ".jpg"
PREFERRED_VIDEO_EXT == ".mp4"

Range(s) == {s[i] : i \in DOMAIN s}

\* the extensions the bounded source trees use, in the order sorted() gives
SrcExts == <<".heic", ".jpg", ".mp4">>

ExtRank(e) == CHOOSE i \in DOMAIN SrcExts : SrcExts[i] = e

----------------------------------------------------------------------------
(* Files.  A path is [loc, stem, ext, json]: loc "src" or "dst", stem the   *)
(* base name (a number standing for "a", "b", ... in the source tree, the   *)
(* date of the file name in the destination), ext the media extension and   *)
(* json TRUE for the sidecar <file>.json.                                   *)
(* A file's content is a record: kind is what a decoder makes of the bytes, *)
(* pix the pixels or samples, dto / cd the EXIF DateTimeOriginal and        *)
(* CreateDate tags, layout the text layout of those tags, gps the GPS tags,  *)
(* enc the container's encoded_date,                                        *)
(* comment whether the container comment holds "Converted", and for a       *)
(* sidecar ts (photoTakenTime.timestamp) and geo (geoDataExif present).     *)
(* mtime is the file's modification time (not part of its bytes).           *)

SrcPath(stem, ext) == [loc |-> "src", stem |-> stem, ext |-> ext, json |-> FALSE]
DstPath(date, ext) == [loc |-> "dst", stem |-> date, ext |-> ext, json |-> FALSE]

ImageFile(pix, dto, cd, layout) ==
    [kind |-> "image", pix |-> pix, dto |-> dto, cd |-> cd, layout |-> layout,
     gps |-> FALSE,
     enc |-> None, comment |-> FALSE, ts |-> None, geo |-> FALSE,
     mtime |-> MtimeOfSource]

VideoFile(pix, enc) ==
    [kind |-> "video", pix |-> pix, dto |-> None, cd |-> None,
     layout |-> ExifLayout, gps |-> FALSE,
     enc |-> enc, comment |-> FALSE, ts |-> None, geo |-> FALSE,
     mtime |-> MtimeOfSource]

JsonFile(ts, geo) ==
    [kind |-> "json", pix |-> 0, dto |-> None, cd |-> None,
     layout |-> ExifLayout, gps |-> FALSE,
     enc |-> None, comment |-> FALSE, ts |-> ts, geo |-> geo,
     mtime |-> MtimeOfSource]

VARIABLES
    fs,             \* the file system: existing path -> content
    db,             \* image_hashes as the open connection sees it
    committed,      \* image_hashes as committed to pictures.db
    cleanup,        \* self.cleanup
    media_type,     \* self.media_type
    results,        \* self.results
    pc,             \* where run() stands
    files,          \* files of run()
    idx,            \* index of run()'s for loop (1-based)
    info,           \* new_file_info of the current iteration
    cleanup_files,  \* cleanup_files of the current iteration
    date_taken,     \* date_taken of the current iteration
    runs,           \* invocations so far
    crashes,        \* kills so far
    edits,          \* edits of the source tree so far
    outcomes,       \* history: what this run did with each file it handled
    removed,        \* history: the source files deleted so far, each with
                    \*          whether the destination held its content then
    stable,         \* history: this run follows a completed run, source untouched
    destAtStart,    \* history: destination paths when this run started
    interrupted,    \* history: source files copied but not deleted when killed
    media           \* SpecDate: the media object and the files it stands for

vars == <<fs, db, committed, cleanup, media_type, results, pc, files, idx, info,
          cleanup_files, date_taken, runs, crashes, edits, outcomes, removed, stable,
          destAtStart, interrupted, media>>

----------------------------------------------------------------------------
(* The file system *)

Exists(F, p) == p \in DOMAIN F

WriteFile(F, p, c) == [q \in DOMAIN F \cup {p} |-> IF q = p THEN c ELSE F[q]]

RemoveFiles(F, S) == [q \in DOMAIN F \ S |-> F[q]]

\* the bytes of a file: everything but its modification time
ByteKey(c) == [c EXCEPT !.mtime = None]

\* OrganizePictures._md5: equal exactly for files of equal bytes
Md5(F, p) == ByteKey(F[p])

DestPaths(F) == {p \in DOMAIN F : p.loc = "dst"}

SourcePaths(F) == {p \in DOMAIN F : p.loc = "src"}

----------------------------------------------------------------------------
(* Helpers of OrganizePictures *)

\* _get_json_file, for names without "(" and ")": <file>.json
GetJsonFile(p) == [p EXCEPT !.json = TRUE]

\* self.extensions as __init__ derives it from media_type
Extensions(mt) ==
    IF mt = "image" THEN Range(ImageExts)
    ELSE IF mt = "video" THEN Range(VideoExts)
    ELSE Range(ImageExts) \cup Range(VideoExts)

PathLess(p, q) ==
    \/ p.stem < q.stem
    \/ p.stem = q.stem /\ ExtRank(p.ext) < ExtRank(q.ext)

RECURSIVE SortPaths(_)
SortPaths(S) ==
    IF S = {} THEN << >>
    ELSE LET m == CHOOSE p \in S : \A q \in S \ {p} : PathLess(p, q)
         IN  <<m>> \o SortPaths(S \ {m})

\* _get_files: the media files under the source directory, sorted
GetFiles(F, mt) ==
    SortPaths({p \in SourcePaths(F) : ~p.json /\ p.ext \in Extensions(mt)})

\* _find_image_animation: the first video extension, in MEDIA_TYPES order,
\* for which a file of the same base name exists
FindImageAnimation(F, p) ==
    LET hits == {i \in DOMAIN VideoExts : Exists(F, [p EXCEPT !.ext = VideoExts[i]])}
    IN  IF hits = {} THEN NoPath
        ELSE [p EXCEPT !.ext = VideoExts[CHOOSE i \in hits : \A j \in hits : i <= j]]

\* _get_image_hash: md5 of the decoded pixels, None when PIL cannot open the
\* file (self.current_hash is never set to a hash, so the cache never answers)
GetImageHash(F, p) == IF F[p].kind = "image" THEN F[p].pix ELSE None

\* _check_db_for_image_hash: the rows with that hash
CheckDbForImageHash(D, h) == {r \in D : r.hash = h}

\* _check_db_for_image_path_hash
CheckDbForImagePathHash(D, F, p) == CheckDbForImageHash(D, GetImageHash(F, p))

\* an INSERT into a table that has no UNIQUE(image_path) constraint
InsertImageHashUnconstrained(D, F, p) ==
    LET h == GetImageHash(F, p)
    IN  IF h = None THEN D ELSE D \cup {[image_path |-> p, hash |-> h]}

\* _insert_image_hash: INSERT (image_path, hash) unless the hash is None; the
\* table is UNIQUE(image_path) ON CONFLICT IGNORE
InsertImageHash(D, F, p) ==
    LET h == GetImageHash(F, p)
    IN  IF h = None THEN D
        ELSE IF \E r \in D : r.image_path = p THEN D
        ELSE D \cup {[image_path |-> p, hash |-> h]}

\* datetime.strptime(text, format): the date when the text is laid out as
\* the format says, ValueError (None here) otherwise
Strptime(date, layout, format) == IF layout = format THEN date ELSE None

\* _update_tags for the two date tags: a tag whose text already equals the
\* new text is dropped, the others are written
UpdateDateTags(c, date) ==
    IF c.dto = date /\ c.cd = date /\ c.layout = ENCODED_DATE_FORMAT THEN c
    ELSE [c EXCEPT !.dto = date, !.cd = date, !.layout = ExifLayout]

\* _write_json_data_to_image: the tags of the sidecar are written to the file
\* only inside the geoDataExif branch (_update_tags is called there)
WriteJsonDataToImage(F, file, json_file) ==
    IF ~Exists(F, json_file) THEN F
    ELSE LET data == F[json_file]
         IN  IF ~data.geo THEN F
             ELSE WriteFile(F, file,
                    [(IF data.ts # None THEN UpdateDateTags(F[file], data.ts)
                      ELSE F[file]) EXCEPT !.gps = TRUE])

IsVideoExt(e) == e \in Range(VideoExts)
IsImageExt(e) == e \in Range(ImageExts)

\* the date _get_date_taken finds in the file itself (None when it finds
\* none): a video's encoded_date; for an image the first of EXIF_DATE_FIELDS
\* that is present, parsed with ENCODED_DATE_FORMAT (the ValueError of a tag
\* laid out otherwise is caught and logged)
DateInFile(F, file) ==
    IF IsVideoExt(file.ext) THEN F[file].enc
    ELSE IF IsImageExt(file.ext)
         THEN IF F[file].dto # None
              THEN Strptime(F[file].dto, F[file].layout, ENCODED_DATE_FORMAT)
              ELSE IF F[file].cd # None
              THEN Strptime(F[file].cd, F[file].layout, ENCODED_DATE_FORMAT)
              ELSE None
         ELSE None

\* _get_date_taken: [fs, date]; for an image the sidecar is written to the
\* tags first; a file without a date gets its modification time
GetDateTaken(F, file) ==
    LET F1 == IF IsImageExt(file.ext)
              THEN WriteJsonDataToImage(F, file, GetJsonFile(file)) ELSE F
        d  == DateInFile(F1, file)
    IN  [fs |-> F1, date |-> IF d = None THEN F1[file].mtime ELSE d]

\* _media_file_matches: the destination file exists and has the same md5, or
\* the source is a video and the destination's comment holds "Converted".
\* Each TRUE also adds one to results['duplicate'].
MediaFileMatches(F, source_file, dest_file) ==
    IF ~Exists(F, dest_file) THEN FALSE
    ELSE IF Md5(F, source_file) = Md5(F, dest_file) THEN TRUE
    ELSE IF IsVideoExt(source_file.ext) THEN F[dest_file].comment
    ELSE FALSE

\* the dictionary _get_new_fileinfo builds for one date, before it looks at
\* the destination
FileInfoAt(F, mt, file, date) ==
    LET ext == file.ext
        json_file == GetJsonFile(file)
        animation == FindImageAnimation(F, file)
    IN  [ext |-> ext,
         date_encoded |-> date,
         path |-> IF ext \in VID_CONVERT_EXTS THEN DstPath(date, PREFERRED_VIDEO_EXT)
                  ELSE IF ext \in IMG_CHANGE_EXTS THEN DstPath(date, PREFERRED_IMAGE_EXT)
                  ELSE DstPath(date, ext),
         convert_path |-> IF ext \in IMG_CONVERT_EXTS
                          THEN DstPath(date, PREFERRED_IMAGE_EXT) ELSE NoPath,
         json_file |-> IF Exists(F, json_file) THEN json_file ELSE NoPath,
         new_json_file |-> IF Exists(F, json_file)
                           THEN GetJsonFile(DstPath(date, ext)) ELSE NoPath,
         animation_source |-> IF mt = "image" THEN animation ELSE NoPath,
         animation_dest |-> IF mt = "image" /\ animation # NoPath
                            THEN DstPath(date, PREFERRED_VIDEO_EXT) ELSE NoPath,
         duplicate |-> FALSE]

\* a probe that moves on by two seconds
RECURSIVE GetNewFileinfoBy2(_, _, _, _)
GetNewFileinfoBy2(F, mt, file, date) ==
    LET i == FileInfoAt(F, mt, file, date)
    IN  IF ~Exists(F, i.path) THEN i
        ELSE IF MediaFileMatches(F, file, i.path) THEN [i EXCEPT !.duplicate = TRUE]
        ELSE GetNewFileinfoBy2(F, mt, file, date + 2)

\* _get_new_fileinfo: the first date, from _date on in steps of one second,
\* whose path is free (returned as it is) or holds a file that matches the
\* source (returned with duplicate set)
RECURSIVE GetNewFileinfo(_, _, _, _)
GetNewFileinfo(F, mt, file, date) ==
    LET i == FileInfoAt(F, mt, file, date)
    IN  IF ~Exists(F, i.path) THEN i
        ELSE IF MediaFileMatches(F, file, i.path) THEN [i EXCEPT !.duplicate = TRUE]
        ELSE GetNewFileinfo(F, mt, file, date + 1)

\* what ffmpeg writes for _convert_video: the samples re-encoded, the
\* metadata mapped over, the comment "Converted <file> to <new_file>"
ConvertedVideo(c) == [c EXCEPT !.comment = TRUE, !.mtime = None]

\* what shutil.copyfile writes: the same bytes
CopiedFile(c) == [c EXCEPT !.mtime = None]

\* what Image.convert('RGB').save writes for _convert_image: the pixels
\* without the tags
ConvertedImage(c) ==
    [ImageFile(c.pix, None, None, ExifLayout) EXCEPT !.mtime = None]

\* _update_file_date: DateTimeOriginal and CreateDate are set to the date
\* whenever PIL opens the file (the un-prefixed key 'DateTimeOriginal' is
\* never in exiftool's metadata, so the tags are always written); any
\* failure is logged and nothing changes
UpdateFileDate(F, file, date) ==
    IF F[file].kind = "image"
    THEN WriteFile(F, file,
            [F[file] EXCEPT !.dto = date, !.cd = date, !.layout = ExifLayout])
    ELSE F

----------------------------------------------------------------------------
(* The source trees of the initial states.  Base name s holds one media     *)
(* file, of extension ext and pixels pix, with its date tags (or            *)
(* encoded_date) set or not, an image's tags in either layout; the first    *)
(* base name may also have a sidecar                                        *)
(* JSON (with or without geoDataExif) and, next to an image, a companion    *)
(* video of the same base name.                                             *)

Min(a, b) == IF a < b THEN a ELSE b

AllBundles ==
    [ext : Range(SrcExts), pix : 1..MaxPix,
     dated : {"no", ENCODED_DATE_FORMAT, ExifLayout},
     sidecar : {"none", "geo", "plain"}, anim : BOOLEAN]

Bundles(stem) ==
    {b \in AllBundles :
        /\ b.pix <= Min(stem, MaxPix)
        /\ IsVideoExt(b.ext) => b.dated # ENCODED_DATE_FORMAT
        /\ b.anim => (stem = 1 /\ IsImageExt(b.ext))
        /\ b.sidecar # "none" => stem = 1}

BundlePaths(stem, b) ==
    {SrcPath(stem, b.ext)}
    \cup (IF b.sidecar # "none" THEN {GetJsonFile(SrcPath(stem, b.ext))} ELSE {})
    \cup (IF b.anim THEN {SrcPath(stem, PREFERRED_VIDEO_EXT)} ELSE {})

BundleContent(b, p) ==
    IF p.json THEN JsonFile(JsonDate, b.sidecar = "geo")
    ELSE IF p.ext # b.ext THEN VideoFile(b.pix, None)
    ELSE IF IsVideoExt(b.ext)
         THEN VideoFile(b.pix, IF b.dated # "no" THEN ExifDate ELSE None)
         ELSE IF b.dated = "no" THEN ImageFile(b.pix, None, None, ExifLayout)
         ELSE ImageFile(b.pix, ExifDate, ExifDate, b.dated)

Trees ==
    UNION {{t \in [1..n -> AllBundles] : \A s \in 1..n : t[s] \in Bundles(s)}
           : n \in 1..MaxFiles}

TreeFs(t) ==
    [p \in UNION {BundlePaths(s, t[s]) : s \in DOMAIN t} |-> BundleContent(t[p.stem], p)]

\* no media object (the orchestrator of this version builds none)
NoMedia == [pc |-> "none"]

NoInfo ==
    [ext |-> "", date_encoded |-> None, path |-> NoPath, convert_path |-> NoPath,
     json_file |-> NoPath, new_json_file |-> NoPath, animation_source |-> NoPath,
     animation_dest |-> NoPath, duplicate |-> FALSE]

\* self.results of __init__
NoResults == [moved |-> 0, duplicate |-> 0, failed |-> 0, deleted |-> 0]

Init ==
    /\ \E t \in Trees : fs = TreeFs(t)
    /\ cleanup \in BOOLEAN
    /\ media_type \in {"none", "image"}
    /\ db = {}
    /\ committed = {}
    /\ results = NoResults
    /\ pc = "idle"
    /\ files = << >>
    /\ idx = 0
    /\ info = NoInfo
    /\ cleanup_files = << >>
    /\ date_taken = None
    /\ runs = 0
    /\ crashes = 0
    /\ edits = 0
    /\ outcomes = << >>
    /\ removed = {}
    /\ stable = FALSE
    /\ destAtStart = {}
    /\ interrupted = {}
    /\ media = NoMedia

----------------------------------------------------------------------------
(* OrganizePictures.run(), one action per step of its loop body *)

config == <<cleanup, media_type>>
counters == <<runs, crashes, edits>>

media_file == files[idx]

Append1(q, p) == IF p = NoPath THEN q ELSE Append(q, p)

\* no source gives the file a date: no sidecar, no date tag and no
\* encoded_date
NoDateSource(F, file) ==
    /\ Exists(F, file)
    /\ ~Exists(F, GetJsonFile(file))
    /\ F[file].dto = None /\ F[file].cd = None /\ F[file].enc = None

\* history record of what run() did with media_file: "db" (hash found in the
\* store), "dup" (duplicate at the destination), "placed", "unconverted",
\* "copyfailed" (shutil.copyfile raised shutil.Error, caught at line 538),
\* "copyraised" (shutil.copyfile raised an OSError, which run() lets through)
Outcome(what, date, path, overwrote) ==
    [file |-> media_file, content |-> ByteKey(fs[media_file]),
     undated |-> NoDateSource(fs, media_file), date |-> date, what |-> what,
     path |-> path, overwrote |-> overwrote]

\* python -m organize_pictures ...: __init__ opens pictures.db and run()
\* lists the source files
Start ==
    /\ pc = "idle"
    /\ runs < MaxRuns
    /\ db' = committed
    /\ results' = NoResults
    /\ files' = GetFiles(fs, media_type)
    /\ idx' = 1
    /\ info' = NoInfo
    /\ cleanup_files' = << >>
    /\ date_taken' = None
    /\ pc' = "loop"
    /\ outcomes' = << >>
    /\ destAtStart' = DestPaths(fs)
    /\ UNCHANGED <<fs, committed, config, counters, removed, stable, interrupted>>
    /\ UNCHANGED media

\* lines 497-505: the hash of the file is in the hash store
AlreadyInDb ==
    /\ pc = "loop"
    /\ idx <= Len(files)
    /\ CheckDbForImagePathHash(db, fs, media_file) # {}
    /\ cleanup_files' = <<media_file>>
    /\ outcomes' = Append(outcomes, Outcome("db", None, NoPath, FALSE))
    /\ idx' = idx + 1
    /\ UNCHANGED <<fs, db, committed, config, results, pc, files, info, date_taken,
                   counters, removed, stable, destAtStart, interrupted>>
    /\ UNCHANGED media

\* lines 506-509 and 549-556: the date is resolved and _get_new_fileinfo
\* finds a matching file at the destination
ExamineDuplicate ==
    /\ pc = "loop"
    /\ idx <= Len(files)
    /\ CheckDbForImagePathHash(db, fs, media_file) = {}
    /\ LET g == GetDateTaken(fs, media_file)
           i == GetNewFileinfo(g.fs, media_type, media_file, g.date)
       IN  /\ i.duplicate
           /\ fs' = g.fs
           /\ date_taken' = g.date
           /\ info' = i
           /\ results' = [results EXCEPT !.duplicate = @ + 1]
           /\ cleanup_files' =
                Append1(Append1(<<media_file>>, i.json_file), i.animation_source)
           /\ outcomes' = Append(outcomes, Outcome("dup", g.date, i.path, FALSE))
    /\ pc' = "cleanup"
    /\ UNCHANGED <<db, committed, config, files, idx, counters, removed, stable,
                   destAtStart, interrupted>>
    /\ UNCHANGED media

\* lines 506-510: the date is resolved and _get_new_fileinfo finds a free path
ExamineNew ==
    /\ pc = "loop"
    /\ idx <= Len(files)
    /\ CheckDbForImagePathHash(db, fs, media_file) = {}
    /\ LET g == GetDateTaken(fs, media_file)
           i == GetNewFileinfo(g.fs, media_type, media_file, g.date)
       IN  /\ ~i.duplicate
           /\ fs' = g.fs
           /\ date_taken' = g.date
           /\ info' = i
           /\ pc' = IF IsVideoExt(i.ext) THEN "convert" ELSE "copy"
    /\ cleanup_files' = << >>
    /\ UNCHANGED <<db, committed, config, results, files, idx, counters, outcomes,
                   removed, stable, destAtStart, interrupted>>
    /\ UNCHANGED media

\* lines 510-512: _convert_video of a video to its free path
ConvertVideo ==
    /\ pc = "convert"
    /\ fs' = WriteFile(fs, info.path, ConvertedVideo(fs[media_file]))
    /\ results' = [results EXCEPT !.moved = @ + 1]
    /\ cleanup_files' = Append(cleanup_files, media_file)
    /\ outcomes' = Append(outcomes,
            Outcome("placed", date_taken, info.path, FALSE))
    /\ pc' = "json"
    /\ UNCHANGED <<db, committed, config, files, idx, info, date_taken, counters,
                   removed, stable, destAtStart, interrupted>>
    /\ UNCHANGED media

\* lines 518-522: _convert_image to convert_path when there is one (a failed
\* conversion leaves the iteration by continue), then shutil.copyfile
CopyImage ==
    /\ pc = "copy"
    /\ IF info.convert_path # NoPath /\ fs[media_file].kind # "image"
       THEN /\ idx' = idx + 1
            /\ pc' = "loop"
            /\ outcomes' = Append(outcomes,
                    Outcome("unconverted", date_taken, NoPath, FALSE))
            /\ UNCHANGED <<fs, results>>
       ELSE LET F1 == IF info.convert_path = NoPath THEN fs
                      ELSE WriteJsonDataToImage(
                              WriteFile(fs, info.convert_path,
                                        ConvertedImage(fs[media_file])),
                              info.convert_path, GetJsonFile(media_file))
            IN  /\ fs' = WriteFile(F1, info.path, CopiedFile(fs[media_file]))
                /\ results' = IF info.convert_path = NoPath THEN results
                              ELSE [results EXCEPT !.moved = @ + 1]
                /\ outcomes' = Append(outcomes,
                        Outcome("placed", date_taken, info.path,
                                info.convert_path # NoPath
                                /\ Exists(fs, info.convert_path)))
                /\ pc' = "tag"
                /\ idx' = idx
    /\ UNCHANGED <<db, committed, config, files, info, cleanup_files, date_taken,
                   counters, removed, stable, destAtStart, interrupted>>
    /\ UNCHANGED media

\* the exceptions shutil.copyfile raises: shutil.Error (SameFileError) and
\* OSError (no space left, permission denied, input/output error, ...)
CopyErrors == {"shutil.Error", "OSError"}

\* the copies that raised in this invocation so far
Faults ==
    Cardinality({k \in DOMAIN outcomes :
                    outcomes[k].what \in {"copyfailed", "copyraised"}})

\* lines 518-522 and 538-540: shutil.copyfile raises, after _convert_image
\* when there is a convert_path.  shutil.Error is caught: failed += 1 and the
\* iteration goes on at line 542.  An OSError is no shutil.Error: it leaves
\* run() and ends the process.  (The model lets copies fail in its last
\* invocation.)
CopyError ==
    /\ pc = "copy"
    /\ runs = MaxRuns - 1
    /\ Faults < MaxFaults
    /\ ~(info.convert_path # NoPath /\ fs[media_file].kind # "image")
    /\ LET F1 == IF info.convert_path = NoPath THEN fs
                 ELSE WriteJsonDataToImage(
                         WriteFile(fs, info.convert_path,
                                   ConvertedImage(fs[media_file])),
                         info.convert_path, GetJsonFile(media_file))
           R1 == IF info.convert_path = NoPath THEN results
                 ELSE [results EXCEPT !.moved = @ + 1]
       IN  /\ fs' = F1
           /\ \E exc \in CopyErrors :
                IF exc = "shutil.Error"
                THEN /\ results' = [R1 EXCEPT !.failed = @ + 1]
                     /\ outcomes' = Append(outcomes,
                            Outcome("copyfailed", date_taken, info.path, FALSE))
                     /\ pc' = "json"
                ELSE /\ results' = R1
                     /\ outcomes' = Append(outcomes,
                            Outcome("copyraised", date_taken, info.path, FALSE))
                     /\ pc' = "OSError"
    /\ UNCHANGED <<db, committed, config, files, idx, info, cleanup_files,
                   date_taken, counters, removed, stable, destAtStart, interrupted>>
    /\ UNCHANGED media

\* lines 523-526: _update_file_date of the copy, moved += 1, queue the source
UpdateDate ==
    /\ pc = "tag"
    /\ fs' = UpdateFileDate(fs, info.path, info.date_encoded)
    /\ results' = [results EXCEPT !.moved = @ + 1]
    /\ cleanup_files' = Append(cleanup_files, media_file)
    /\ pc' = "anim"
    /\ UNCHANGED <<db, committed, config, files, idx, info, date_taken, counters,
                   outcomes, removed, stable, destAtStart, interrupted>>
    /\ UNCHANGED media

\* lines 527-535: the companion animation, when media_type is 'image' and one
\* was found: a match at animation_dest counts a duplicate, otherwise
\* _convert_video writes animation_dest; either way the animation is queued
Animation ==
    /\ pc = "anim"
    /\ IF info.animation_source = NoPath
       THEN UNCHANGED <<fs, results, cleanup_files>>
       ELSE IF MediaFileMatches(fs, info.animation_source, info.animation_dest)
       THEN /\ results' = [results EXCEPT !.duplicate = @ + 1]
            /\ cleanup_files' = Append(cleanup_files, info.animation_source)
            /\ UNCHANGED fs
       ELSE /\ fs' = WriteFile(fs, info.animation_dest,
                               ConvertedVideo(fs[info.animation_source]))
            /\ results' = [results EXCEPT !.moved = @ + 1]
            /\ cleanup_files' = Append(cleanup_files, info.animation_source)
    /\ pc' = "insert"
    /\ UNCHANGED <<db, committed, config, files, idx, info, date_taken, counters,
                   outcomes, removed, stable, destAtStart, interrupted>>
    /\ UNCHANGED media

\* lines 536-537: self._insert_image_hash(media_file)
InsertHash ==
    /\ pc = "insert"
    /\ db' = InsertImageHash(db, fs, media_file)
    /\ pc' = "json"
    /\ UNCHANGED <<fs, committed, config, results, files, idx, info, cleanup_files,
                   date_taken, counters, outcomes, removed, stable, destAtStart,
                   interrupted>>
    /\ UNCHANGED media

\* lines 542-548: the sidecar JSON is copied to new_json_file
CopyJson ==
    /\ pc = "json"
    /\ IF info.json_file = NoPath
       THEN UNCHANGED <<fs, results, cleanup_files>>
       ELSE /\ fs' = WriteFile(fs, info.new_json_file, CopiedFile(fs[info.json_file]))
            /\ results' = [results EXCEPT !.moved = @ + 1]
            /\ cleanup_files' = Append(cleanup_files, info.json_file)
    /\ pc' = "cleanup"
    /\ UNCHANGED <<db, committed, config, files, idx, info, date_taken, counters,
                   outcomes, removed, stable, destAtStart, interrupted>>
    /\ UNCHANGED media

\* what a file is apart from its tags and its encoding: the pixels or samples
\* of a media file, the data of a sidecar
Payload(c) == [kind |-> c.kind, pix |-> c.pix, ts |-> c.ts, geo |-> c.geo]

\* some file of the destination holds the content of file p
ContentAtDestination(F, p) ==
    \E d \in DestPaths(F) : Payload(F[d]) = Payload(F[p])

\* the queued files that are no longer there
Gone(F, queue) == {k \in DOMAIN queue : ~Exists(F, queue[k])}

\* lines 558-562: with cleanup set, every queued file is counted and then
\* removed, in the order of the queue; os.remove of a file that is gone
\* raises FileNotFoundError, which leaves run()
Cleanup ==
    /\ pc = "cleanup"
    /\ IF cleanup_files # << >> /\ cleanup
       THEN LET gone == Gone(fs, cleanup_files)
                stop == IF gone = {} THEN Len(cleanup_files)
                        ELSE CHOOSE k \in gone : \A j \in gone : k <= j
                done == {cleanup_files[k] : k \in 1 .. stop} \cap DOMAIN fs
            IN  /\ results' = [results EXCEPT !.deleted = @ + stop]
                /\ fs' = RemoveFiles(fs, done)
                /\ removed' = removed \cup
                        {[file |-> p, present |-> ContentAtDestination(fs, p)]
                         : p \in done}
                /\ IF gone = {}
                   THEN idx' = idx + 1 /\ pc' = "loop"
                   ELSE idx' = idx /\ pc' = "FileNotFoundError"
       ELSE /\ UNCHANGED <<fs, results, removed>>
            /\ idx' = idx + 1
            /\ pc' = "loop"
    /\ UNCHANGED <<db, committed, config, files, info, cleanup_files, date_taken,
                   counters, outcomes, stable, destAtStart, interrupted>>
    /\ UNCHANGED media

\* line 564: return self.results
Finish ==
    /\ pc = "loop"
    /\ idx > Len(files)
    /\ pc' = "done"
    /\ UNCHANGED <<fs, db, committed, config, results, files, idx, info,
                   cleanup_files, date_taken, counters, outcomes, removed, stable,
                   destAtStart, interrupted>>
    /\ UNCHANGED media

\* the ways run() ends that leave the interpreter to exit in order: its
\* return, and the exceptions that leave it
Ended == {"done", "OSError", "FileNotFoundError"}

\* an exit that closes the connection without a commit
CloseWithoutCommit ==
    /\ pc \in Ended
    /\ pc' = "idle"
    /\ runs' = runs + 1
    /\ stable' = (pc = "done")
    /\ interrupted' = {}
    /\ UNCHANGED <<fs, db, committed, config, results, files, idx, info,
                   cleanup_files, date_taken, crashes, edits, outcomes, removed,
                   destAtStart>>
    /\ UNCHANGED media

\* _complete, registered with atexit: commit and close when the process ends,
\* by the return of run() or by an exception that left it
Complete ==
    /\ pc \in Ended
    /\ committed' = db
    /\ pc' = "idle"
    /\ runs' = runs + 1
    /\ stable' = (pc = "done")
    /\ interrupted' = {}
    /\ UNCHANGED <<fs, db, config, results, files, idx, info, cleanup_files,
                   date_taken, crashes, edits, outcomes, removed, destAtStart>>
    /\ UNCHANGED media

----------------------------------------------------------------------------
(* The environment *)

\* the source files this run has placed and not deleted
PlacedNotDeleted ==
    {o.file : o \in {outcomes[k] : k \in DOMAIN outcomes}} \cap
    {outcomes[k].file : k \in {j \in DOMAIN outcomes :
                                 outcomes[j].what = "placed"
                                 /\ Exists(fs, outcomes[j].file)}}

\* the process is killed (or the machine stops) in the middle of run(): atexit
\* handlers do not run, the open transaction is lost
Crash ==
    /\ pc # "idle"
    /\ crashes < MaxCrashes
    /\ db' = committed
    /\ pc' = "idle"
    /\ runs' = runs + 1
    /\ crashes' = crashes + 1
    /\ stable' = FALSE
    /\ interrupted' = PlacedNotDeleted
    /\ UNCHANGED <<fs, committed, config, results, files, idx, info, cleanup_files,
                   date_taken, edits, outcomes, removed, destAtStart>>
    /\ UNCHANGED media

\* while run() is busy with an asset (the conversion of a companion video
\* takes its time), somebody else removes a source file run() has queued for
\* deletion.  (The model lets this happen in its last invocation, and where
\* run() is going to delete the file.)
Vanish ==
    /\ pc = "cleanup"
    /\ runs = MaxRuns - 1
    /\ cleanup
    /\ Gone(fs, cleanup_files) = {}
    /\ \E k \in DOMAIN cleanup_files : fs' = RemoveFiles(fs, {cleanup_files[k]})
    /\ UNCHANGED <<db, committed, config, results, pc, files, idx, info,
                   cleanup_files, date_taken, counters, outcomes, removed, stable,
                   destAtStart, interrupted>>
    /\ UNCHANGED media

\* between two invocations the user puts a different picture or video under
\* the name of an existing source file (a camera that counts from 1 again)
Edit ==
    /\ pc = "idle"
    /\ runs > 0
    /\ edits < MaxEdits
    /\ \E p \in SourcePaths(fs), x \in 1..MaxPix :
        /\ ~p.json
        /\ x # fs[p].pix
        /\ fs' = WriteFile(fs, p, [fs[p] EXCEPT !.pix = x])
    /\ edits' = edits + 1
    /\ stable' = FALSE
    /\ interrupted' = {}
    /\ UNCHANGED <<db, committed, config, results, pc, files, idx, info,
                   cleanup_files, date_taken, runs, crashes, outcomes, removed,
                   destAtStart>>
    /\ UNCHANGED media

Next ==
    \/ Start
    \/ AlreadyInDb
    \/ ExamineDuplicate
    \/ ExamineNew
    \/ ConvertVideo
    \/ CopyImage
    \/ CopyError
    \/ UpdateDate
    \/ Animation
    \/ InsertHash
    \/ CopyJson
    \/ Cleanup
    \/ Finish
    \/ Complete
    \/ Crash
    \/ Vanish
    \/ Edit

Spec == Init /\ [][Next]_vars

----------------------------------------------------------------------------
(* The date of one media object.  media is a record: subject the class of   *)
(* the object, json its sidecar, tags the date tags of the file on disk,    *)
(* exif_data / cached the object's self._exif_data, date_taken its          *)
(* self._date_taken, pc "new" before the constructor, "built" after it,     *)
(* "raised" when the constructor raised, "read" after date_taken was read;  *)
(* consulted records whether date_taken read the file's metadata.           *)

\* utils.DATE_FORMATS, the values in the order of the dictionary
DATE_FORMATS ==
    << "%Y-%m-%d %H:%M:%S", "%Y:%m:%d %H:%M:%S", "%Y/%m/%d %H:%M:%S,%f",
       "%Y-%m-%d_%H'%M'%S", "%Y-%m-%d %H:%M:%S", "%Y-%m-%dT%H:%M:%SZ",
       "%Y-%m-%d %H:%M:%S%z", "%Y-%m-%d %H:%M:%S %Z" >>

\* utils.EXIF_DATE_FIELDS
EXIF_DATE_FIELDS == <<"DateTimeOriginal", "CreateDate">>

\* a tag that is not in the metadata, and one whose text is no date
NoTag == [layout |-> "absent", date |-> None]
Garbage == [layout |-> "garbage", date |-> None]

TagValues ==
    {NoTag, Garbage} \cup [layout : {DATE_FORMATS[1], DATE_FORMATS[2]}, date : 0 .. MaxDate]

Metadata == [Range(EXIF_DATE_FIELDS) -> TagValues]

NoMetadata == [f \in Range(EXIF_DATE_FIELDS) |-> NoTag]

\* photoTakenTime.timestamp: absent, an integer datetime can represent,
\* text that is no integer, an integer beyond what datetime can represent
NoTimestamp == [kind |-> "absent", value |-> None]

Timestamps ==
    {NoTimestamp, [kind |-> "text", value |-> None], [kind |-> "overflow", value |-> None]}
    \cup [kind : {"int"}, value : 0 .. MaxDate]

NoJson == [present |-> FALSE, ts |-> NoTimestamp, geo |-> FALSE]

Sidecars == {NoJson} \cup [present : {TRUE}, ts : Timestamps, geo : BOOLEAN]

\* a conversion that answers the epoch for a timestamp it cannot read
FromTimestampOrEpoch(ts) == IF ts.kind = "int" THEN ts.value ELSE 0

\* datetime.fromtimestamp(int(timestamp)): None stands for the exception of
\* int() or of fromtimestamp()
FromTimestamp(ts) == IF ts.kind = "int" THEN ts.value ELSE None

\* the loop over DATE_FORMATS.values(): the first format that parses the tag
RECURSIVE TryFormats(_, _)
TryFormats(tag, i) ==
    IF i > Len(DATE_FORMATS) THEN None
    ELSE LET d == Strptime(tag.date, tag.layout, DATE_FORMATS[i])
         IN  IF d # None THEN d ELSE TryFormats(tag, i + 1)

\* TruMedia.date_taken, the loop over self.date_fields: every field that is
\* present is parsed, and a field that parses sets self._date_taken
RECURSIVE MediaFieldLoop(_, _, _)
MediaFieldLoop(exif, i, date) ==
    IF i > Len(EXIF_DATE_FIELDS) THEN date
    ELSE LET tag == exif[EXIF_DATE_FIELDS[i]]
             d == IF tag # NoTag THEN TryFormats(tag, 1) ELSE None
         IN  MediaFieldLoop(exif, i + 1, IF d # None THEN d ELSE date)

\* TruImage.date_taken, the loop over EXIF_DATE_FIELDS: the first field that
\* is present is parsed and ends the loop
RECURSIVE ImageFieldLoop(_, _)
ImageFieldLoop(exif, i) ==
    IF i > Len(EXIF_DATE_FIELDS) THEN None
    ELSE IF exif[EXIF_DATE_FIELDS[i]] # NoTag
         THEN TryFormats(exif[EXIF_DATE_FIELDS[i]], 1)
         ELSE ImageFieldLoop(exif, i + 1)

\* TruImage._update_tags for the date tags: a tag whose text in
\* self.exif_data equals the new text is dropped; exiftool stores the others
UpdateTags(exif, tags, date) ==
    [f \in Range(EXIF_DATE_FIELDS) |->
        IF exif[f] = [layout |-> DATE_FORMATS[1], date |-> date] THEN tags[f]
        ELSE [layout |-> ExifLayout, date |-> date]]

\* the organizer does nothing while a media object is looked at
Organizer ==
    <<fs, db, committed, cleanup, media_type, results, pc, files, idx, info,
      cleanup_files, date_taken, runs, crashes, edits, outcomes, removed, stable,
      destAtStart, interrupted>>

InitDate ==
    /\ fs = << >>
    /\ cleanup = FALSE
    /\ media_type = "none"
    /\ db = {}
    /\ committed = {}
    /\ results = NoResults
    /\ pc = "idle"
    /\ files = << >>
    /\ idx = 0
    /\ info = NoInfo
    /\ cleanup_files = << >>
    /\ date_taken = None
    /\ runs = 0
    /\ crashes = 0
    /\ edits = 0
    /\ outcomes = << >>
    /\ removed = {}
    /\ stable = FALSE
    /\ destAtStart = {}
    /\ interrupted = {}
    /\ media \in [pc : {"new"}, subject : {"TruMedia", "TruImage"}, json : Sidecars,
                  tags : Metadata, exif_data : {NoMetadata}, cached : {FALSE},
                  date_taken : {None}, consulted : {FALSE}]

\* TruMedia.__init__ of a file that has its preferred extension
TruMedia_init ==
    /\ media.pc = "new"
    /\ media.subject = "TruMedia"
    /\ media' = [media EXCEPT !.pc = "built"]
    /\ UNCHANGED Organizer

\* TruMedia.date_taken: the sidecar first, then the metadata
TruMedia_date_taken ==
    /\ media.pc = "built"
    /\ media.subject = "TruMedia"
    /\ LET fromJson == IF media.json.present /\ media.json.ts.kind # "absent"
                       THEN FromTimestamp(media.json.ts) ELSE None
       IN  IF fromJson # None
           THEN media' = [media EXCEPT !.pc = "read", !.date_taken = fromJson]
           ELSE media' = [media EXCEPT !.pc = "read",
                                       !.exif_data = media.tags,
                                       !.cached = TRUE,
                                       !.consulted = TRUE,
                                       !.date_taken = MediaFieldLoop(media.tags, 1, None)]
    /\ UNCHANGED Organizer

\* TruImage.__init__ of a valid image whose extension fits its mime type:
\* _write_json_data_to_image
TruImage_init ==
    /\ media.pc = "new"
    /\ media.subject = "TruImage"
    /\ LET j == media.json
       IN  IF j.present /\ j.ts.kind \in {"text", "overflow"}
           THEN media' = [media EXCEPT !.pc = "raised"]
           ELSE IF j.present /\ j.geo
           THEN media' = [media EXCEPT
                            !.pc = "built",
                            !.exif_data = media.tags,
                            !.cached = TRUE,
                            !.tags = IF j.ts.kind = "int"
                                     THEN UpdateTags(media.tags, media.tags,
                                                     FromTimestamp(j.ts))
                                     ELSE @]
           ELSE media' = [media EXCEPT !.pc = "built"]
    /\ UNCHANGED Organizer

\* TruImage.date_taken: the metadata as self.exif_data holds it
TruImage_date_taken ==
    /\ media.pc = "built"
    /\ media.subject = "TruImage"
    /\ LET exif == IF media.cached THEN media.exif_data ELSE media.tags
       IN  media' = [media EXCEPT !.pc = "read",
                                  !.exif_data = exif,
                                  !.cached = TRUE,
                                  !.consulted = TRUE,
                                  !.date_taken = ImageFieldLoop(exif, 1)]
    /\ UNCHANGED Organizer

NextDate ==
    \/ TruMedia_init
    \/ TruMedia_date_taken
    \/ TruImage_init
    \/ TruImage_date_taken

SpecDate == InitDate /\ [][NextDate]_vars

----------------------------------------------------------------------------
(* The naming of the destination: _get_new_fileinfo for a file whose       *)
(* destination path is free, over every extension, both layouts of the     *)
(* destination and dates of different years and months.  media is          *)
(* [pc, ext, date, sub_dirs, info]: pc "file" before the call and "info"   *)
(* after it, info the dictionary the call returned.                        *)

\* the organizer as __init__ leaves it, before run()
IdleOrganizer ==
    /\ fs = << >>
    /\ cleanup = FALSE
    /\ media_type = "none"
    /\ db = {}
    /\ committed = {}
    /\ results = NoResults
    /\ pc = "idle"
    /\ files = << >>
    /\ idx = 0
    /\ info = NoInfo
    /\ cleanup_files = << >>
    /\ date_taken = None
    /\ runs = 0
    /\ crashes = 0
    /\ edits = 0
    /\ outcomes = << >>
    /\ removed = {}
    /\ stable = FALSE
    /\ destAtStart = {}
    /\ interrupted = {}

\* the extensions of the files _get_files lists, as they are written
FileExts == Range(ImageExts) \cup Range(VideoExts) \cup {".JPG", ".HEIC", ".MOV"}

\* str.lower() of an extension
Lower(e) ==
    CASE e = ".JPG" -> ".jpg"
      [] e = ".HEIC" -> ".heic"
      [] e = ".MOV" -> ".mov"
      [] OTHER -> e

\* the dates: a year, a month, the day and time of day to the second (rest)
\* and the microsecond
Years == {2023, 2024}
Months == {1, 2, 12}
Dates == [year : Years, month : Months, rest : 0 .. 1, microsecond : 0 .. 1]

\* strftime("%b") in the C locale
MonthAbbr ==
    <<"Jan", "Feb", "Mar", "Apr", "May", "Jun",
      "Jul", "Aug", "Sep", "Oct", "Nov", "Dec">>

\* strftime(FILENAME_DATE_FORMAT): the date to the second, the microsecond
\* is not written
FilenameDate(d) == [year |-> d.year, month |-> d.month, rest |-> d.rest]

\* f"{_dir}/{stamp}{ext}"
Join(dir, stamp, ext) == [dir |-> dir, stamp |-> stamp, ext |-> ext]

NoDest == [dir |-> << >>, stamp |-> [year |-> 0, month |-> 0, rest |-> 0], ext |-> ""]

\* _get_new_fileinfo, lines 446-477: the dictionary for a free destination
NewFileInfo(_ext, _date, sub_dirs) ==
    LET _ext_lower == Lower(_ext)
        _dir == IF sub_dirs THEN <<"dest", _date.year, MonthAbbr[_date.month]>>
                ELSE <<"dest">>
        stamp == FilenameDate(_date)
    IN  [ext |-> _ext_lower,
         dir |-> _dir,
         filename |-> [stamp |-> stamp, ext |-> _ext_lower],
         path |-> IF _ext_lower \in VID_CONVERT_EXTS
                  THEN Join(_dir, stamp, PREFERRED_VIDEO_EXT)
                  ELSE IF _ext_lower \in IMG_CHANGE_EXTS
                  THEN Join(_dir, stamp, PREFERRED_IMAGE_EXT)
                  ELSE Join(_dir, stamp, _ext_lower),
         convert_path |-> IF _ext_lower \in IMG_CONVERT_EXTS
                          THEN Join(_dir, stamp, PREFERRED_IMAGE_EXT) ELSE NoDest,
         date_encoded |-> _date]

\* no dictionary yet
NoNewInfo ==
    [ext |-> "", dir |-> << >>, filename |-> [stamp |-> NoDest.stamp, ext |-> ""],
     path |-> NoDest, convert_path |-> NoDest,
     date_encoded |-> [year |-> 0, month |-> 0, rest |-> 0, microsecond |-> 0]]

InitInfo ==
    /\ IdleOrganizer
    /\ media \in [pc : {"file"}, ext : FileExts, date : Dates, sub_dirs : BOOLEAN,
                  info : {NoNewInfo}]

\* new_file_info = self._get_new_fileinfo(media_file, date_taken)
GetNewFileinfo_free ==
    /\ media.pc = "file"
    /\ media' = [media EXCEPT
                    !.pc = "info",
                    !.info = NewFileInfo(media.ext, media.date, media.sub_dirs)]
    /\ UNCHANGED Organizer

NextInfo == GetNewFileinfo_free

SpecInfo == InitInfo /\ [][NextInfo]_vars

----------------------------------------------------------------------------
(* The path of a media object: the constructor, the media_path setter and  *)
(* _reconcile_mime_type of TruMedia and of TruImage.  A path is the         *)
(* sequence of the pieces of its text, <<"album", "/", "photo", ".png">>;   *)
(* a file is [mime, data], mime what libmagic makes of its bytes.  media is *)
(* [pc, subject, absolute, webp_listed, files, dirs, orig, media_path, ext, *)
(* json_file_path, valid, reconciled, assigned, last]: files the files on   *)
(* disk, dirs the directories, orig the file the object was asked to stand  *)
(* for, last the last operation with its argument and the exception it      *)
(* raised.                                                                  *)

NoName == << >>
NoExt == "None"

\* pathlib.Path(path).suffix, os.path.splitext(os.path.basename(path))[1]
Suffix(path) == path[Len(path)]

\* os.path.dirname(path)
DirOf(path) ==
    SubSeq(path, 1, (CHOOSE i \in DOMAIN path : path[i] = "/") - 1)

\* str.replace(old, new): every occurrence of old in the text is replaced
Replace(path, old, new) ==
    [i \in DOMAIN path |-> IF path[i] = old THEN new ELSE path[i]]

\* f"{path}.json"
SidecarOf(path) == Append(path, ".json")

\* mimetypes.guess_type(path)[0]
GuessType(path) ==
    CASE Suffix(path) = ".jpg" -> "image/jpeg"
      [] Suffix(path) = ".png" -> "image/png"
      [] Suffix(path) = ".mp4" -> "video/mp4"
      [] OTHER -> "None"

\* what magic.from_file(path, mime=True) may answer
Mimes == {"image/jpeg", "image/png", "image/webp", "video/mp4", "inode/x-empty"}

\* mimetypes.MimeTypes().types_map_inv[1].get(mime): the extensions the
\* interpreter's table of standard types lists for the type, None when it
\* lists none (image/webp is listed by newer interpreters only)
TypesMapInv(mime, webp_listed) ==
    CASE mime = "image/jpeg" -> <<".jpg", ".jpe", ".jpeg">>
      [] mime = "image/png" -> <<".png">>
      [] mime = "video/mp4" -> <<".mp4">>
      [] mime = "image/webp" /\ webp_listed -> <<".webp">>
      [] OTHER -> << >>

\* shutil.move(source, dest) within one file system
Move(F, source, dest) ==
    [q \in (DOMAIN F \ {source}) \cup {dest} |-> IF q = dest THEN F[source] ELSE F[q]]

\* a setter that stores whatever it is given
StoreMediaPath(m, value) == [m EXCEPT !.media_path = value]

\* the media_path setter (TruMedia lines 81-86, TruImage.image_path 52-57)
SetMediaPath(m, value) ==
    IF value \notin DOMAIN m.files
    THEN [m EXCEPT !.last.exc = "FileNotFoundError"]
    ELSE [m EXCEPT !.media_path = value]

\* the ext getter: the suffix of media_path the first time, the cached value
\* afterwards
ExtOf(m) == IF m.ext = NoExt THEN Suffix(m.media_path) ELSE m.ext

\* the json_file_path getter.  TruMedia joins the directory of media_path to
\* what glob returned for f"{media_path}*.json" and matches the result
\* against media_path: for a relative media_path the joined text never
\* matches.  TruImage looks for f"{image_path}.json".
JsonFilePathOf(m) ==
    IF m.json_file_path # NoName THEN m.json_file_path
    ELSE IF SidecarOf(m.media_path) \notin DOMAIN m.files THEN NoName
    ELSE IF m.subject = "TruMedia" /\ ~m.absolute THEN NoName
    ELSE SidecarOf(m.media_path)

\* the branch "elif mime_guess != mime_actual" of _reconcile_mime_type
\* (TruMedia lines 230-250, TruImage lines 227-247), dev_mode being False
CorrectExtension(m, mime_actual) ==
    LET exts == TypesMapInv(mime_actual, m.webp_listed)
    IN  IF exts = << >> THEN [m EXCEPT !.last.exc = "TypeError"]
        ELSE
        LET new_ext == exts[1]
            new_path == Replace(m.media_path, ExtOf(m), new_ext)
            m1 == [m EXCEPT !.ext = new_ext]
            json == JsonFilePathOf(m1)
            m2 == [m1 EXCEPT !.json_file_path = json]
        IN  IF DirOf(new_path) \notin m.dirs
            THEN [m2 EXCEPT !.last.exc = "FileNotFoundError"]
            ELSE LET m3 == [m2 EXCEPT !.files = Move(@, m.media_path, new_path),
                                      !.media_path = new_path]
                 IN  IF json = NoName THEN m3
                     ELSE [m3 EXCEPT
                             !.files = Move(@, json, SidecarOf(new_path)),
                             !.json_file_path = SidecarOf(new_path)]

\* TruMedia._reconcile_mime_type
ReconcileMedia(m) ==
    LET mime_guess == GuessType(m.media_path)
        mime_actual == m.files[m.media_path].mime
        \* magic.from_file raises for a path that names no file
        missing == m.media_path \notin DOMAIN m.files
    IN  IF missing THEN [m EXCEPT !.last.exc = "FileNotFoundError"]
        ELSE IF mime_actual = "inode/x-empty" THEN [m EXCEPT !.valid = FALSE]
        ELSE IF mime_guess # mime_actual THEN CorrectExtension(m, mime_actual)
        ELSE m

\* TruImage._reconcile_mime_type: a file that is no image is regenerated
\* first, which fails for bytes PIL cannot open, and is then invalid
ReconcileImage(m) ==
    LET mime_guess == GuessType(m.media_path)
        mime_actual == m.files[m.media_path].mime
        \* magic.from_file raises for a path that names no file
        missing == m.media_path \notin DOMAIN m.files
    IN  IF missing THEN [m EXCEPT !.last.exc = "FileNotFoundError"]
        ELSE IF mime_actual \notin {"image/jpeg", "image/png", "image/webp"}
        THEN [m EXCEPT !.valid = FALSE]
        ELSE IF mime_guess # mime_actual THEN CorrectExtension(m, mime_actual)
        ELSE m

\* the names a caller may hand over: a file that was never there
MissingPath == <<"album", "/", "missing", ".jpg">>

\* what is recorded of an operation: its argument, media_path before it,
\* whether the argument named a file, and the exception that left it
Operation(op, arg, m) ==
    [op |-> op, arg |-> arg, before |-> m.media_path,
     existed |-> arg \in DOMAIN m.files, exc |-> "none"]

\* another picture of the same base name in the directory, and its sidecar:
\* photo.png next to photo.jpg
OtherExt(e) == IF e = ".jpg" THEN ".png" ELSE ".jpg"

OtherFile(path) ==
    IF Suffix(path) = ".json"
    THEN [mime |-> "application/json", data |-> "other json"]
    ELSE [mime |-> GuessType(path), data |-> "other pixels"]

InitPath ==
    /\ IdleOrganizer
    /\ \E subject \in {"TruMedia", "TruImage"}, absolute \in BOOLEAN,
          webp_listed \in BOOLEAN, ext0 \in {".jpg", ".png"},
          dotted \in BOOLEAN, mime \in Mimes, sidecar \in BOOLEAN,
          others \in {"none", "file", "file and sidecar"} :
         LET dir == IF dotted THEN <<"album", ext0>> ELSE <<"album">>
             path == dir \o <<"/", "photo", ext0>>
             primary == [mime |-> mime, data |-> "pixels"]
             F == IF sidecar
                  THEN (path :> primary) @@
                       (SidecarOf(path) :> [mime |-> "application/json", data |-> "json"])
                  ELSE (path :> primary)
             other == dir \o <<"/", "photo", OtherExt(ext0)>>
             G == IF others = "none" THEN << >>
                  ELSE IF others = "file" THEN (other :> OtherFile(other))
                  ELSE (other :> OtherFile(other)) @@
                       (SidecarOf(other) :> OtherFile(SidecarOf(other)))
         IN  media = [pc |-> "new", subject |-> subject, absolute |-> absolute,
                      webp_listed |-> webp_listed, files |-> F @@ G, dirs |-> {dir},
                      orig |-> [path |-> path, sidecar |-> sidecar, file |-> primary],
                      media_path |-> NoName, ext |-> NoExt,
                      json_file_path |-> NoName, valid |-> TRUE,
                      reconciled |-> FALSE, assigned |-> FALSE,
                      last |-> [op |-> "none", arg |-> NoName, before |-> NoName,
                                existed |-> FALSE, exc |-> "none"]]

\* TruMedia.__init__ (lines 25-51) of a class whose preferred extension the
\* file has: media_path and the json_file_path argument go through their
\* setters, and the comparison with preferred_ext reads, and so caches, ext
TruMedia_new ==
    /\ media.pc = "new"
    /\ media.subject = "TruMedia"
    /\ \E value \in {media.orig.path, MissingPath} :
       \E json \in {NoName} \cup ({SidecarOf(value)} \cap DOMAIN media.files) :
         LET m0 == [media EXCEPT !.last = Operation("init", value, media)]
             m1 == SetMediaPath(m0, value)
         IN  media' = IF m1.last.exc # "none"
                      THEN [m1 EXCEPT !.pc = "raised"]
                      ELSE [m1 EXCEPT !.pc = "built", !.json_file_path = json,
                                      !.ext = Suffix(value)]
    /\ UNCHANGED Organizer

\* a caller's self._reconcile_mime_type() on a TruMedia object
TruMedia_reconcile_mime_type ==
    /\ media.pc = "built"
    /\ media.subject = "TruMedia"
    /\ ~media.reconciled
    /\ media' = ReconcileMedia([media EXCEPT
                    !.last = Operation("reconcile", media.media_path, media),
                    !.reconciled = TRUE])
    /\ UNCHANGED Organizer

\* TruImage.__init__ (lines 27-46): the path, valid from the extension, then
\* _reconcile_mime_type; the sidecar holds nothing to write into the image
TruImage_new ==
    /\ media.pc = "new"
    /\ media.subject = "TruImage"
    /\ \E value \in {media.orig.path, MissingPath} :
         LET m0 == [media EXCEPT !.last = Operation("init", value, media)]
             m1 == SetMediaPath(m0, value)
             m2 == ReconcileImage([m1 EXCEPT !.reconciled = TRUE])
         IN  media' = IF m1.last.exc # "none" THEN [m1 EXCEPT !.pc = "raised"]
                      ELSE IF m2.last.exc # "none" THEN [m2 EXCEPT !.pc = "raised"]
                      ELSE [m2 EXCEPT !.pc = "built"]
    /\ UNCHANGED Organizer

\* obj.media_path = value (obj.image_path = value), once per object
AssignMediaPath ==
    /\ media.pc = "built"
    /\ ~media.assigned
    /\ \E value \in {media.media_path, media.orig.path, MissingPath} :
         media' = SetMediaPath([media EXCEPT
                      !.last = Operation("assign", value, media),
                      !.assigned = TRUE], value)
    /\ UNCHANGED Organizer

NextPath ==
    \/ TruMedia_new
    \/ TruMedia_reconcile_mime_type
    \/ TruImage_new
    \/ AssignMediaPath

SpecPath == InitPath /\ [][NextPath]_vars

----------------------------------------------------------------------------
(* Writing tags to an image: TruImage._update_tags and TruImage._regenerate, *)
(* which call each other.  media is [pc, stack, ret, has_exif, valid,        *)
(* regenerated, failures, regenerations, retries, failed_retries]: stack the *)
(* calls in progress, innermost first, each [fn, at, tags] with at the place *)
(* the call has reached and tags whether it has tags left to write; ret the  *)
(* value the last _regenerate returned; failures the set_tags calls that     *)
(* raised so far; the last three count what happened.                        *)

\* the number of set_tags calls that raise ExifToolExecuteError
MaxFailures == 3

Frame(fn, at, tags) == [fn |-> fn, at |-> at, tags |-> tags]

Top == Head(media.stack)

\* replace the innermost call's place, push a call, leave the innermost call
At(m, at) == [m EXCEPT !.stack = <<[Head(@) EXCEPT !.at = at]>> \o Tail(@)]
Call(m, frame) == [m EXCEPT !.stack = <<frame>> \o @]
Return(m) == [m EXCEPT !.stack = Tail(@)]

\* what the handler of ExifToolExecuteError does with the answer of
\* _regenerate (lines 334-337): write again, or give the image up
AfterRegenerate(m) ==
    IF m.ret
    THEN Call([At(m, "retried") EXCEPT !.retries = @ + 1],
              Frame("_update_tags", "try", Head(m.stack).tags))
    ELSE Return([m EXCEPT !.valid = FALSE])

InitTags ==
    /\ IdleOrganizer
    /\ \E has_exif \in BOOLEAN, tags \in BOOLEAN :
         media = [pc |-> "called",
                  stack |-> <<Frame("_update_tags", "try", tags)>>,
                  ret |-> FALSE, has_exif |-> has_exif, valid |-> TRUE,
                  regenerated |-> FALSE, failures |-> 0, regenerations |-> 0,
                  retries |-> 0, failed_retries |-> 0]

\* _update_tags lines 313-331: with no tag left to write nothing is called;
\* set_tags writes the tags or raises ExifToolExecuteError
UpdateTags_try ==
    /\ media.stack # << >>
    /\ Top.fn = "_update_tags" /\ Top.at = "try"
    /\ \/ /\ ~Top.tags
          /\ media' = Return(media)
       \/ /\ Top.tags
          /\ media' = Return(media)
       \/ /\ Top.tags
          /\ media.failures < MaxFailures
          /\ media' = [At(media, "except") EXCEPT
                         !.failures = @ + 1,
                         !.failed_retries = @ + (IF Len(media.stack) > 1
                                                   /\ media.stack[2].at = "retried"
                                                 THEN 1 ELSE 0)]
    /\ UNCHANGED Organizer

\* _update_tags lines 332-334: the handler calls _regenerate
UpdateTags_except ==
    /\ media.stack # << >>
    /\ Top.fn = "_update_tags" /\ Top.at = "except"
    /\ media' = Call(At(media, "regenerating"), Frame("_regenerate", "save", FALSE))
    /\ UNCHANGED Organizer

\* _regenerate lines 197-206: Image.open(...).save(...) raises, and the
\* method answers False, or the image is written anew and its EXIF: tags are
\* handed to _update_tags
Regenerate_save ==
    /\ media.stack # << >>
    /\ Top.fn = "_regenerate" /\ Top.at = "save"
    /\ \E saved \in BOOLEAN :
         media' = IF saved
                  THEN Call([At(media, "rewrite") EXCEPT !.regenerations = @ + 1],
                            Frame("_update_tags", "try", media.has_exif))
                  ELSE Return([media EXCEPT !.ret = FALSE])
    /\ UNCHANGED Organizer

\* _regenerate lines 207-209
Regenerate_return ==
    /\ media.stack # << >>
    /\ Top.fn = "_regenerate" /\ Top.at = "rewrite"
    /\ media' = Return([media EXCEPT !.regenerated = TRUE, !.ret = TRUE])
    /\ UNCHANGED Organizer

\* _update_tags lines 334-337, _regenerate having answered
UpdateTags_regenerated ==
    /\ media.stack # << >>
    /\ Top.fn = "_update_tags" /\ Top.at = "regenerating"
    /\ media' = AfterRegenerate(media)
    /\ UNCHANGED Organizer

\* _update_tags after line 335: the second write returned
UpdateTags_return ==
    /\ media.stack # << >>
    /\ Top.fn = "_update_tags" /\ Top.at = "retried"
    /\ media' = Return(media)
    /\ UNCHANGED Organizer

\* the outermost _update_tags returned to its caller
UpdateTags_done ==
    /\ media.pc = "called"
    /\ media.stack = << >>
    /\ media' = [media EXCEPT !.pc = "returned"]
    /\ UNCHANGED Organizer

NextTags ==
    \/ UpdateTags_try
    \/ UpdateTags_except
    \/ Regenerate_save
    \/ Regenerate_return
    \/ UpdateTags_regenerated
    \/ UpdateTags_return
    \/ UpdateTags_done

SpecTags == InitTags /\ [][NextTags]_vars

----------------------------------------------------------------------------
(* convert(dest_ext) of TruImage and of TruVideo.  media is [pc, subject,   *)
(* files, dirs, media_path, ext, decodable, converts, last]: files maps the *)
(* paths on disk to what they hold, decodable tells whether PIL (ffmpeg)    *)
(* can read the source, last records the last call: its target, whether and *)
(* with what content the target was there before, whether the encoder       *)
(* wrote, and the answer ("True", "False", or the exception that left it).  *)

\* the number of convert calls on one object
MaxConverts == 2

SourceExts(subject) == IF subject = "TruImage" THEN {".png", ".heic"} ELSE {".mov", ".avi"}
DestExts(subject) == IF subject = "TruImage" THEN {".jpg", ".webp"} ELSE {".mp4", ".mkv"}

NoCall ==
    [dest |-> NoName, existed |-> FALSE, before |-> "none", encoded |-> FALSE,
     result |-> "none"]

InitConvert ==
    /\ IdleOrganizer
    /\ \E subject \in {"TruImage", "TruVideo"}, dotted \in BOOLEAN,
          decodable \in BOOLEAN :
       \E ext0 \in SourceExts(subject) :
       \E present \in SUBSET DestExts(subject) :
         LET dir == IF dotted THEN <<"album", ext0>> ELSE <<"album">>
             path == dir \o <<"/", "clip", ext0>>
             name(e) == dir \o <<"/", "clip", e>>
         IN  media = [pc |-> "built", subject |-> subject,
                      files |-> [q \in {path} \cup {name(e) : e \in present} |->
                                   IF q = path THEN "source" ELSE "earlier"],
                      dirs |-> {dir}, media_path |-> path, ext |-> ext0,
                      decodable |-> decodable, converts |-> 0, last |-> NoCall]

\* TruImage.convert (lines 401-416): no look at the target; PIL opens the
\* source and saves it over whatever the target path holds; any exception
\* is answered with False
TruImage_convert ==
    /\ media.pc = "built"
    /\ media.subject = "TruImage"
    /\ media.converts < MaxConverts
    /\ \E dest_ext \in DestExts("TruImage") :
         LET dest_file == Replace(media.media_path, media.ext, dest_ext)
             existed == dest_file \in DOMAIN media.files
             before == IF existed THEN media.files[dest_file] ELSE "none"
             written == media.decodable /\ DirOf(dest_file) \in media.dirs
         IN  media' = [media EXCEPT
                         !.converts = @ + 1,
                         !.files = IF written
                                   THEN [q \in DOMAIN @ \cup {dest_file} |->
                                           IF q = dest_file THEN "converted" ELSE @[q]]
                                   ELSE @,
                         !.last = [dest |-> dest_file, existed |-> existed,
                                   before |-> before, encoded |-> written,
                                   result |-> IF written THEN "True" ELSE "False"]]
    /\ UNCHANGED Organizer

\* TruVideo.convert (lines 264-287): an existing target is skipped and
\* answered with True; otherwise ffmpeg transcodes, and ffmpeg.run raises
\* ffmpeg.Error when it fails
TruVideo_convert ==
    /\ media.pc = "built"
    /\ media.subject = "TruVideo"
    /\ media.converts < MaxConverts
    /\ \E dest_ext \in DestExts("TruVideo") :
         LET dest_file == Replace(media.media_path, media.ext, dest_ext)
             existed == dest_file \in DOMAIN media.files
             before == IF existed THEN media.files[dest_file] ELSE "none"
             written == ~existed /\ media.decodable /\ DirOf(dest_file) \in media.dirs
         IN  media' = [media EXCEPT
                         !.converts = @ + 1,
                         !.files = IF written
                                   THEN [q \in DOMAIN @ \cup {dest_file} |->
                                           IF q = dest_file THEN "converted" ELSE @[q]]
                                   ELSE @,
                         !.last = [dest |-> dest_file, existed |-> existed,
                                   before |-> before, encoded |-> written,
                                   result |-> IF existed \/ written THEN "True"
                                              ELSE "ffmpeg.Error"]]
    /\ UNCHANGED Organizer

NextConvert ==
    \/ TruImage_convert
    \/ TruVideo_convert

SpecConvert == InitConvert /\ [][NextConvert]_vars

----------------------------------------------------------------------------
(* Writing the sidecar into the tags: TruMedia._write_json_data_to_media    *)
(* and TruMedia._update_tags, called several times on one object.  A tag's  *)
(* name is the sequence of its pieces, <<"QuickTime", "CreateDate">>; its   *)
(* value is [form, v]: form the layout of a date's text, "xml" for the      *)
(* people comment, "number" or "letter" for a GPS tag.  media is [pc,       *)
(* media_type, verbose, json, file, calls, issued, set_tags]: file the tags *)
(* exiftool reports for the file on disk, json the sidecar (ts the          *)
(* photoTakenTime timestamp or None, people, geo a geoDataExif of the       *)
(* northern and eastern hemisphere at sea level), issued the tags the last  *)
(* call handed to set_tags and set_tags the number of its set_tags calls.   *)

\* the number of _write_json_data_to_media calls on one object
MaxInjects == 2

\* utils.VIDEO_DATE_FIELDS
VIDEO_DATE_FIELDS ==
    << <<"QuickTime", "CreateDate">>, <<"QuickTime", "TrackCreateDate">>,
       <<"QuickTime", "MediaCreateDate">>, <<"Matroska", "CreationTime">> >>

\* self.date_fields of an image and of a video
DateFields(mt) ==
    IF mt = "video" THEN Range(VIDEO_DATE_FIELDS)
    ELSE {<<EXIF_DATE_FIELDS[i]>> : i \in DOMAIN EXIF_DATE_FIELDS}

TagValue(form, v) == [form |-> form, v |-> v]

\* the tags dictionary _write_json_data_to_media builds (lines 259-338)
SidecarTags(mt, j) ==
    LET dates == IF j.ts # None THEN DateFields(mt) ELSE {}
        comment == IF j.people THEN {<<"UserComment">>} ELSE {}
        gps == IF j.geo
               THEN {<<"GPSLatitude">>, <<"GPSLatitudeRef">>,
                     <<"GPSLongitude">>, <<"GPSLongitudeRef">>}
               ELSE {}
    IN  [f \in dates \cup comment \cup gps |->
            IF f \in dates THEN TagValue(DATE_FORMATS[1], j.ts)
            ELSE IF f \in comment THEN TagValue("xml", 0)
            ELSE IF f \in {<<"GPSLatitude">>, <<"GPSLongitude">>}
                 THEN TagValue("number", 1)
            ELSE TagValue("letter", 0)]

\* the name exiftool reports a written tag under: the group that was named,
\* else EXIF in an image and XMP in a video
StoredField(mt, f) ==
    IF Len(f) > 1 THEN f
    ELSE IF mt = "video" THEN <<"XMP">> \o f ELSE <<"EXIF">> \o f

\* what exiftool stores of a value: a date in the layout of EXIF
StoredValue(val) ==
    IF val.form = DATE_FORMATS[1] THEN TagValue(ExifLayout, val.v) ELSE val

\* a Matroska tag cannot be written into an image or an mp4
Writable(f) == f[1] # "Matroska"

\* set_tags of exiftool (lines 357-372)
SetTags(file, mt, tags) ==
    LET written == {f \in DOMAIN tags : Writable(f)}
        names == {StoredField(mt, f) : f \in written}
    IN  [k \in DOMAIN file \cup names |->
            IF k \in names
            THEN StoredValue(tags[CHOOSE f \in written : StoredField(mt, f) = k])
            ELSE file[k]]

\* _update_tags, lines 345-353: the tags that are left after the ones
\* self.exif_data holds under exif_field = f"EXIF:{_field}" with an equal
\* value are deleted
TagsLeft(exif_data, tags) ==
    {f \in DOMAIN tags :
        LET exif_field == <<"EXIF">> \o f
        IN  ~(exif_field \in DOMAIN exif_data /\ exif_data[exif_field] = tags[f])}

\* the file holds what exiftool stores of every tag of the sidecar
HoldsSidecar(m) ==
    LET tags == SidecarTags(m.media_type, m.json)
    IN  \A f \in DOMAIN tags :
           Writable(f) =>
              /\ StoredField(m.media_type, f) \in DOMAIN m.file
              /\ m.file[StoredField(m.media_type, f)] = StoredValue(tags[f])

\* the date tags of the file before the first call
InitialTags(mt, date) ==
    IF date = None THEN << >>
    ELSE LET names == {StoredField(mt, f) : f \in {g \in DateFields(mt) : Writable(g)}}
         IN  [k \in names |-> TagValue(ExifLayout, date)]

InitInject ==
    /\ IdleOrganizer
    /\ \E mt \in {"image", "video"}, verbose \in BOOLEAN,
          j \in [present : BOOLEAN, ts : {None} \cup (0 .. MaxDate),
                 people : BOOLEAN, geo : BOOLEAN],
          date \in {None} \cup (0 .. MaxDate) :
         /\ ~j.present => (j.ts = None /\ ~j.people /\ ~j.geo)
         /\ media = [pc |-> "built", media_type |-> mt, verbose |-> verbose,
                     json |-> j, file |-> InitialTags(mt, date), calls |-> 0,
                     issued |-> {}, set_tags |-> 0]

\* _write_json_data_to_media() with _update_tags(media_path, tags)
TruMedia_write_json_data_to_media ==
    /\ media.pc \in {"built", "injected"}
    /\ media.calls < MaxInjects
    /\ LET tags == IF media.json.present
                   THEN SidecarTags(media.media_type, media.json) ELSE << >>
           left == TagsLeft(media.file, tags)
       IN  media' = [media EXCEPT
                       !.pc = "injected",
                       !.calls = @ + 1,
                       !.issued = left,
                       !.set_tags = IF media.verbose THEN Cardinality(left)
                                    ELSE IF left # {} THEN 1 ELSE 0,
                       !.file = SetTags(@, media.media_type,
                                        [f \in left |-> tags[f]])]
    /\ UNCHANGED Organizer

NextInject == TruMedia_write_json_data_to_media

SpecInject == InitInject /\ [][NextInject]_vars

----------------------------------------------------------------------------
(* The offset of _get_date_taken (lines 342-354).  A date is the record of  *)
(* the fields of a datetime, an offset the dictionary parse_offset returns. *)
(* media is [pc, date, offset, minus, result, exc]: date the resolved       *)
(* capture date, result the date _get_date_taken returns, exc the exception *)
(* that left it; pc "resolved" before the offset is applied and "returned"  *)
(* or "raised" after it.                                                    *)

\* the largest number of an offset option
MaxOffset == 1

\* OrganizePictures.init_offset(): dict.fromkeys(list(OFFSET_CHARS), 0)
InitOffset == [Y |-> 0, M |-> 0, D |-> 0, h |-> 0, m |-> 0, s |-> 0]

\* the dictionaries parse_offset returns for options of numbers up to
\* MaxOffset
Offsets ==
    [Y : 0 .. MaxOffset, M : 0 .. MaxOffset, D : 0 .. MaxOffset,
     h : 0 .. MaxOffset, m : 0 .. MaxOffset, s : 0 .. MaxOffset]

\* the days of month mo of year y
DaysInMonth(y, mo) ==
    LET leap == y % 4 = 0 /\ (y % 100 # 0 \/ y % 400 = 0)
    IN  IF mo = 2 THEN (IF leap THEN 29 ELSE 28)
        ELSE IF mo \in {4, 6, 9, 11} THEN 30 ELSE 31

\* the field values datetime(...) accepts; anything else raises ValueError
ValidDate(d) ==
    /\ d.year \in 1 .. 9999
    /\ d.month \in 1 .. 12
    /\ d.day \in 1 .. DaysInMonth(d.year, d.month)
    /\ d.hour \in 0 .. 23
    /\ d.minute \in 0 .. 59
    /\ d.second \in 0 .. 59

NoDate == [year |-> 0, month |-> 0, day |-> 0, hour |-> 0, minute |-> 0, second |-> 0]

\* the resolved capture dates: around the ends of a year, of February, of a
\* day, an hour and a minute
ResolvedDates ==
    {d \in [year : {2023, 2024}, month : {1, 2, 12}, day : {1, 28, 31},
            hour : {0, 23}, minute : {0, 59}, second : {0, 59}] : ValidDate(d)}

\* lines 347-354: the arguments of the datetime(...) call
OffsetFields(d, offset, minus) ==
    LET multiplier == IF minus THEN -1 ELSE 1
    IN  [year |-> d.year + offset.Y * multiplier,
         month |-> d.month + offset.M * multiplier,
         day |-> d.day + offset.D * multiplier,
         hour |-> d.hour + offset.h * multiplier,
         minute |-> d.minute + offset.m * multiplier,
         second |-> d.second + offset.s * multiplier]

\* the days of the months of year y before month mo
RECURSIVE DaysBeforeMonth(_, _)
DaysBeforeMonth(y, mo) ==
    IF mo = 1 THEN 0 ELSE DaysBeforeMonth(y, mo - 1) + DaysInMonth(y, mo - 1)

\* datetime.toordinal(), and the seconds since the first second of the year
\* 2000 (ordinal 730120)
Ordinal(d) ==
    LET y == d.year - 1
    IN  y * 365 + y \div 4 - y \div 100 + y \div 400
          + DaysBeforeMonth(d.year, d.month) + d.day

Seconds(d) ==
    (Ordinal(d) - 730120) * 86400 + d.hour * 3600 + d.minute * 60 + d.second

\* the date shifted by the years and months of the offset, months carried
\* into years and the day kept, and the seconds the days, hours, minutes and
\* seconds of the offset amount to
ShiftedMonth(d, offset, minus) ==
    LET sign == IF minus THEN -1 ELSE 1
        months == (d.year + offset.Y * sign) * 12 + (d.month - 1) + offset.M * sign
    IN  [d EXCEPT !.year = months \div 12, !.month = (months % 12) + 1]

ShiftSeconds(offset, minus) ==
    (IF minus THEN -1 ELSE 1)
       * (offset.D * 86400 + offset.h * 3600 + offset.m * 60 + offset.s)

InitOffsetCall ==
    /\ IdleOrganizer
    /\ media \in [pc : {"resolved"}, date : ResolvedDates, offset : Offsets,
                  minus : BOOLEAN, result : {NoDate}, exc : {"none"}]

\* _get_date_taken from line 342 on: no offset, the date as resolved
GetDateTaken_no_offset ==
    /\ media.pc = "resolved"
    /\ media.offset = InitOffset
    /\ media' = [media EXCEPT !.pc = "returned", !.result = media.date]
    /\ UNCHANGED Organizer

\* _get_date_taken from line 342 on: the datetime(...) call with the offset
\* added field by field
GetDateTaken_offset ==
    /\ media.pc = "resolved"
    /\ media.offset # InitOffset
    /\ LET fields == OffsetFields(media.date, media.offset, media.minus)
       IN  media' = IF ValidDate(fields)
                    THEN [media EXCEPT !.pc = "returned", !.result = fields]
                    ELSE [media EXCEPT !.pc = "raised", !.exc = "ValueError"]
    /\ UNCHANGED Organizer

NextOffset ==
    \/ GetDateTaken_no_offset
    \/ GetDateTaken_offset

SpecOffset == InitOffsetCall /\ [][NextOffset]_vars

----------------------------------------------------------------------------
(* Properties of the orchestrator, checked under Spec *)

InIteration == pc \in {"convert", "copy", "tag", "anim", "insert", "json", "cleanup"}

Outcomes == {outcomes[k] : k \in DOMAIN outcomes}

\* C1: a run that follows a completed run on the untouched source and
\* destination, no run having been killed, with cleanup disabled, places
\* nothing: its moved counter
\* stays 0 and the destination holds exactly the files it held when the run
\* started.
C1_SecondRunPlacesNothing ==
    (stable /\ crashes = 0 /\ ~cleanup /\ pc # "idle")
        => (results.moved = 0 /\ DestPaths(fs) = destAtStart)

\* the two outcomes are of assets of different content
DifferentContent(o1, o2) == Payload(o1.content) # Payload(o2.content)

\* the outcomes of this run so far are of assets of pairwise different
\* content that all resolved to the same date
SameSecondRun ==
    /\ \A k \in DOMAIN outcomes : outcomes[k].date = outcomes[1].date
    /\ \A j, k \in DOMAIN outcomes : j < k => DifferentContent(outcomes[j], outcomes[k])

\* C2: when the assets a run into an empty destination has handled so far
\* have pairwise different content and the same resolved date T, the k-th of
\* them was placed at the path of date T + (k - 1), no two of them share a
\* path, none was taken for a duplicate, and none overwrote a file.
C2_SameSecondDistinctPaths ==
    (runs = 0 /\ outcomes # << >> /\ SameSecondRun)
        => /\ \A k \in DOMAIN outcomes :
                /\ outcomes[k].what = "placed"
                /\ outcomes[k].path.stem = outcomes[1].date + (k - 1)
                /\ ~outcomes[k].overwrote
           /\ \A j, k \in DOMAIN outcomes : j < k => outcomes[j].path # outcomes[k].path

\* the destination paths _get_new_fileinfo looked at and passed over before
\* it settled on info.path
PassedOver ==
    {FileInfoAt(fs, media_type, media_file, d).path
        : d \in date_taken .. (info.date_encoded - 1)}

\* C3: when a destination path computed for the source is occupied by a file
\* of the same content (the same pixels, whatever its tags), the asset is a
\* duplicate: run() never goes on to copy or convert it to a later second.
C3_SameContentInPlaceIsDuplicate ==
    (pc \in {"copy", "convert"})
        => \A d \in PassedOver : Payload(fs[d]) # Payload(fs[media_file])

\* the step of run() for a file whose hash is in the store
HashHitStep ==
    /\ pc = "loop"
    /\ idx <= Len(files)
    /\ CheckDbForImagePathHash(db, fs, media_file) # {}
    /\ idx' = idx + 1

\* the files of an asset: the primary, its sidecar and its companion
FileSet(F, file) ==
    {file}
    \cup (IF Exists(F, GetJsonFile(file)) THEN {GetJsonFile(file)} ELSE {})
    \cup (IF media_type = "image" /\ FindImageAnimation(F, file) # NoPath
          THEN {FindImageAnimation(F, file)} ELSE {})

\* C4: for a file whose hash is in the store, run() adds one to the duplicate
\* counter, queues the file with its sidecar and its companion (and deletes
\* them when cleanup is set), and places nothing: the destination and the
\* store stay as they are.
C4_HashHitCountsAndQueues ==
    [][HashHitStep =>
        /\ results'.duplicate = results.duplicate + 1
        /\ Range(cleanup_files') = FileSet(fs, media_file)
        /\ cleanup => (DOMAIN fs' = DOMAIN fs \ FileSet(fs, media_file))
        /\ DestPaths(fs') = DestPaths(fs)
        /\ \A d \in DestPaths(fs) : fs'[d] = fs[d]
        /\ db' = db]_vars

\* C5: every source file run() has deleted had its content at the
\* destination when it was deleted.
C5_DeletesOnlyPlacedContent ==
    \A r \in removed : r.present

\* C6: in the run that follows a killed run, every asset whose primary file
\* the killed run had copied and not deleted still has its source file, is
\* classified as a duplicate and is not placed a second time.
C6_ResumeFindsDuplicate ==
    pc # "idle"
        => \A o \in Outcomes :
              o.file \in interrupted => o.what \in {"dup", "db"}

\* C7: every record of the hash store was inserted for an asset whose
\* primary file is at the destination, and its path is that destination
\* path, not the source path.
C7_RecordHoldsDestinationPath ==
    \A r \in db : r.image_path.loc = "dst" /\ Exists(fs, r.image_path)

\* C8: an asset no source gives a date has no date: nothing is substituted,
\* it is never placed, its source stays, it counts once as failed and moved
\* does not change for it.
C8_NoDateNoPlacement ==
    /\ (InIteration /\ NoDateSource(fs, media_file)) => date_taken = None
    /\ \A o \in Outcomes :
          o.undated => (o.what = "failed" /\ Exists(fs, o.file))
    /\ Cardinality({k \in DOMAIN outcomes : outcomes[k].undated}) <= results.failed
    /\ (\A o \in Outcomes : o.undated) => results.moved = 0

\* the outcomes of the copies that raised and were caught
CopyFailures == {o \in Outcomes : o.what = "copyfailed"}

\* C11: an error raised by the copy of an asset does not leave run(): it is
\* counted in failed, no hash is recorded for the asset, none of its source
\* files (primary, sidecar) is deleted, and run() goes on.
C11_CopyErrorIsCounted ==
    /\ pc # "OSError"
    /\ Cardinality(CopyFailures) <= results.failed
    /\ \A o \in CopyFailures :
          /\ ~\E r \in db : r.image_path = o.file /\ r.hash = o.content.pix
          /\ Exists(fs, o.file)
          /\ \A r \in removed : r.file \notin {o.file, GetJsonFile(o.file)}

\* C12: with cleanup set, every step of run() that queues files for deletion
\* ends with all of them deleted and the deleted counter raised by the
\* number of files it deleted; a queued file that is already gone raises no
\* error.  (The queue of a file found in the hash store is included.)
C12_CleanupDeletesAll ==
    [][/\ (pc = "cleanup" /\ cleanup /\ pc' \notin {"cleanup", "idle"})
            => /\ pc' = "loop"
               /\ Range(cleanup_files) \cap DOMAIN fs' = {}
               /\ results'.deleted = results.deleted
                        + Cardinality(Range(cleanup_files) \cap DOMAIN fs)
       /\ (HashHitStep /\ cleanup)
            => Range(cleanup_files') \cap DOMAIN fs' = {}]_vars

\* C15: a .heic image placed at a free destination leaves exactly one image
\* file for its date at the destination, and that file is the .jpg: no .heic
\* file is created there.
C15_HeicPlacedAsJpgOnly ==
    \A o \in Outcomes :
        (o.what = "placed" /\ o.file.ext \in IMG_CONVERT_EXTS /\ ~o.overwrote)
            => {p \in DestPaths(fs) :
                    ~p.json /\ p.stem = o.path.stem /\ IsImageExt(p.ext)}
               = {DstPath(o.path.stem, PREFERRED_IMAGE_EXT)}

\* the images of the same base name next to a file
SiblingImages(F, file) ==
    {e \in Range(ImageExts) : Exists(F, [file EXCEPT !.ext = e])}

\* C16: a video that has an image of the same base name next to it is the
\* companion of that image: run() never goes on to place it on its own
\* under the name of its date.
C16_CompanionNotPlacedAlone ==
    pc = "convert" => SiblingImages(fs, media_file) = {}

\* at most one record per path
OnePerPath(D) == \A r1, r2 \in D : r1.image_path = r2.image_path => r1 = r2

\* C21: the hash store, as the connection sees it and as committed, holds at
\* most one record per path, and an insertion keeps every record that was
\* there: the insertion of a path that has a record adds none and leaves the
\* hash of that record as it was.
C21_OneRecordPerPath ==
    /\ [](OnePerPath(db) /\ OnePerPath(committed))
    /\ [][(pc = "insert" /\ pc' = "json") => (db \subseteq db' /\ OnePerPath(db'))]_vars

\* _insert_image_hash has just run for a file whose path had a record of
\* another hash (the picture under that name was replaced after an earlier
\* run)
C21_Witness ==
    /\ pc = "json"
    /\ outcomes # << >>
    /\ outcomes[Len(outcomes)].what = "placed"
    /\ outcomes[Len(outcomes)].file = media_file
    /\ fs[media_file].kind = "image"
    /\ \E r \in db : r.image_path = media_file /\ r.hash # GetImageHash(fs, media_file)

\* C22: the connection is opened when the orchestrator is constructed and
\* sees the committed records; however run() ends, by its return or by an
\* exception that leaves it, the next thing that happens (the process not
\* being killed) is the one commit of every record the connection holds,
\* with which the connection is closed; nothing is committed anywhere else.
C22_CommitAndCloseOnEveryExit ==
    [][/\ pc = "idle" => (pc' = "idle" \/ db' = committed)
       /\ (pc \in Ended /\ crashes' = crashes)
            => (pc' = "idle" /\ committed' = db /\ db' = db)
       /\ committed' # committed => (pc \in Ended /\ pc' = "idle")]_vars

\* an invocation that placed an image and was then left by an exception has
\* ended, and the record of that image is committed
C22_Witness ==
    /\ pc = "idle"
    /\ runs > 0 /\ crashes = 0
    /\ idx <= Len(files)
    /\ \E o \in Outcomes :
          /\ o.what = "placed"
          /\ [image_path |-> o.file, hash |-> o.content.pix] \in committed

\* run() holds the answer of _get_new_fileinfo for media_file and has not
\* written to the destination since
JustProbed ==
    /\ pc \in {"copy", "convert"} \/ (pc = "cleanup" /\ info.duplicate)
    /\ Exists(fs, media_file)

\* C23: the candidate _get_new_fileinfo returns is the one of the smallest
\* date d, from the capture date on in steps of one second, whose path is
\* free (returned unflagged) or holds a file that matches the source
\* (returned flagged duplicate): the paths of all earlier dates hold files
\* that do not match, and date_encoded is d.
C23_FirstFreeOrMatchingSecond ==
    JustProbed
        => /\ info.date_encoded >= date_taken
           /\ info.path = FileInfoAt(fs, media_type, media_file, info.date_encoded).path
           /\ \A d \in PassedOver :
                 Exists(fs, d) /\ ~MediaFileMatches(fs, media_file, d)
           /\ IF info.duplicate
              THEN MediaFileMatches(fs, media_file, info.path)
              ELSE ~Exists(fs, info.path)

\* the probe stepped over an occupied second and then found the source's
\* duplicate
C23_Witness ==
    /\ JustProbed
    /\ info.duplicate
    /\ info.date_encoded > date_taken

\* C24: no step of run() overwrites a file of the destination: every file
\* that is there before the step is there after it with the same bytes.
\* (The step that sets the date tags of the copy run() has just made is the
\* one exception: it edits the file the step before created.)
C24_NeverOverwrites ==
    [][\A p \in DestPaths(fs) :
          /\ Exists(fs', p)
          /\ ByteKey(fs'[p]) = ByteKey(fs[p]) \/ (pc = "tag" /\ p = info.path)]_vars

\* C25: when run() has returned, the hash store holds a record of the
\* content hash of every asset, image or video, it placed.
C25_PlacedAssetsAreRecorded ==
    pc = "done"
        => \A o \in Outcomes :
              o.what = "placed" => \E r \in db : r.hash = o.content.pix

\* C26: when run() has returned, every discovered file has counted once
\* and for one outcome only: moved + duplicate + failed does not exceed the
\* number of discovered files, and moved is the number of assets placed,
\* whatever was converted or copied along with them.
C26_OneCountPerFile ==
    pc = "done"
        => /\ results.moved + results.duplicate + results.failed <= Len(files)
           /\ results.moved
                = Cardinality({k \in DOMAIN outcomes : outcomes[k].what = "placed"})

----------------------------------------------------------------------------
(* Properties of the naming of the destination, checked under SpecInfo *)

\* the preferred extension of the media kind of an extension
PreferredExt(e) ==
    IF e \in Range(ImageExts) THEN PREFERRED_IMAGE_EXT ELSE PREFERRED_VIDEO_EXT

\* C17: for a file with date D the destination directory is
\* <dest>/<year of D>/<abbreviated month of D> with sub-directories and <dest>
\* without, and the file name of the destination path is D to the second
\* followed by the preferred extension of the media kind (.jpg for an image,
\* .mp4 for a video), whatever the extension of the source.
C17_DestinationNaming ==
    media.pc = "info" =>
        LET D == media.date
            dir == IF media.sub_dirs THEN <<"dest", D.year, MonthAbbr[D.month]>>
                   ELSE <<"dest">>
            stamp == [year |-> D.year, month |-> D.month, rest |-> D.rest]
            ext == PreferredExt(Lower(media.ext))
        IN  /\ media.info.dir = dir
            /\ media.info.path = [dir |-> dir, stamp |-> stamp, ext |-> ext]

----------------------------------------------------------------------------
(* Properties of the path of a media object, checked under SpecPath *)

\* the object was renamed: the file it was built for is no longer there
Renamed == media.orig.path \notin DOMAIN media.files

\* C13: media_path always names an existing file: a constructor call or an
\* assignment with a path that names no file raises FileNotFoundError and
\* leaves media_path as it was, and after an extension correction media_path
\* names the renamed file.
C13_MediaPathExists ==
    /\ media.media_path # NoName => media.media_path \in DOMAIN media.files
    /\ (media.last.op \in {"init", "assign"} /\ ~media.last.existed)
         => /\ media.last.exc = "FileNotFoundError"
            /\ media.media_path = media.last.before
    /\ (media.reconciled /\ media.last.op # "assign" /\ Renamed)
         => /\ media.media_path # media.orig.path
            /\ media.media_path \in DOMAIN media.files
            /\ media.files[media.media_path] = media.orig.file

\* an assignment of a missing path raised on an object that was renamed
C13_Witness ==
    /\ media.last.op = "assign"
    /\ ~media.last.existed
    /\ media.last.exc = "FileNotFoundError"
    /\ Renamed
    /\ media.media_path \in DOMAIN media.files

\* the extension the sniffed type implies
ImpliedExt(mime) ==
    CASE mime = "image/jpeg" -> ".jpg"
      [] mime = "image/png" -> ".png"
      [] mime = "image/webp" -> ".webp"
      [] mime = "video/mp4" -> ".mp4"
      [] OTHER -> NoExt

\* the name of the file with its extension, and nothing else, replaced
Corrected(path, mime) == [path EXCEPT ![Len(path)] = ImpliedExt(mime)]

\* C14: after _reconcile_mime_type on a non-empty file whose extension's
\* type differs from the sniffed type, primary and sidecar carry the implied
\* extension, media_path, ext and json_file_path refer to the renamed files,
\* the old names are gone, the asset is valid and the content is unchanged.
C14_ReconcileRenames ==
    LET old == media.orig.path
        mime == media.orig.file.mime
        new == Corrected(old, mime)
    IN  (/\ media.reconciled
         /\ media.last.op # "assign"
         /\ media.last.arg = old
         /\ mime # "inode/x-empty"
         /\ GuessType(old) # mime)
        => /\ media.last.exc = "none"
           /\ media.valid
           /\ media.media_path = new
           /\ media.ext = ImpliedExt(mime)
           /\ old \notin DOMAIN media.files
           /\ new \in DOMAIN media.files
           /\ media.files[new] = media.orig.file
           /\ media.orig.sidecar
                => /\ SidecarOf(old) \notin DOMAIN media.files
                   /\ SidecarOf(new) \in DOMAIN media.files
                   /\ media.json_file_path = SidecarOf(new)

\* the files of the directory that are not the asset and not its sidecar
OtherFiles(F) == {p \in DOMAIN F : F[p].data \in {"other pixels", "other json"}}

\* C29: an extension correction destroys no other file: every file that is
\* neither the asset nor its sidecar is still there, with its content, after
\* every step, also when the asset or its sidecar is renamed to its name
C29_RenameSparesOtherFiles ==
    [][\A p \in OtherFiles(media.files) :
          /\ p \in DOMAIN media'.files
          /\ media'.files[p] = media.files[p]]_vars

----------------------------------------------------------------------------
(* Properties of the writing of tags, checked under SpecTags *)

\* C18: whatever set_tags calls fail, _update_tags regenerates the image at
\* most once and writes again at most once, and when the second write fails
\* too the image is marked invalid.
C18_OneRegenerationOneRetry ==
    /\ media.regenerations <= 1
    /\ media.retries <= 1
    /\ (media.pc = "returned" /\ media.failed_retries > 0) => ~media.valid

----------------------------------------------------------------------------
(* Properties of convert, checked under SpecConvert *)

\* C20: convert(dest_ext) on an image or a video next to which a file with
\* the target extension already exists answers False, encodes nothing, and
\* leaves that file and the path of the asset as they were.
C20_ExistingTargetSkipped ==
    (media.last.result # "none" /\ media.last.existed)
        => /\ media.last.result = "False"
           /\ ~media.last.encoded
           /\ media.last.dest \in DOMAIN media.files
           /\ media.files[media.last.dest] = media.last.before
           /\ media.media_path \in DOMAIN media.files
           /\ media.files[media.media_path] = "source"

----------------------------------------------------------------------------
(* Properties of the writing of the sidecar, checked under SpecInject *)

\* C27: a call of _write_json_data_to_media on an asset, image or video,
\* whose tags already hold the values of its unchanged sidecar hands no tag
\* to set_tags
C27_InjectionIsIdempotent ==
    [][(media.pc = "injected" /\ HoldsSidecar(media) /\ media'.calls = media.calls + 1)
          => (media'.issued = {} /\ media'.set_tags = 0)]_vars

----------------------------------------------------------------------------
(* Properties of the offset, checked under SpecOffset *)

\* C30: with a non-zero offset _get_date_taken never raises, and the date it
\* returns is the resolved date shifted by the years and months of the
\* offset (where the day exists in the month arrived at) and by its days,
\* hours, minutes and seconds, forward or (minus) backward, carries included
C30_OffsetShiftsWithCarry ==
    (media.pc \in {"returned", "raised"} /\ media.offset # InitOffset)
        => /\ media.pc = "returned"
           /\ media.exc = "none"
           /\ LET shifted == ShiftedMonth(media.date, media.offset, media.minus)
              IN  ValidDate(shifted)
                    => Seconds(media.result)
                         = Seconds(shifted) + ShiftSeconds(media.offset, media.minus)

----------------------------------------------------------------------------
(* Properties of the date of a media object, checked under SpecDate *)

\* C9: for an asset whose sidecar holds a photoTakenTime.timestamp that is an
\* integer, date_taken is the time of that timestamp whatever the date tags
\* hold, and the metadata is not read to resolve it.
C9_SidecarTimestampWins ==
    (media.pc = "read" /\ media.json.present /\ media.json.ts.kind = "int")
        => (media.date_taken = FromTimestamp(media.json.ts) /\ ~media.consulted)

\* the sidecar gives no date
NoSidecarDate == ~media.json.present \/ media.json.ts.kind # "int"

\* C10: when the sidecar gives no date and both DateTimeOriginal and
\* CreateDate hold a date that parses, date_taken is the date of
\* DateTimeOriginal, the first field of the list.
C10_FirstFieldWins ==
    (/\ media.pc = "read"
     /\ NoSidecarDate
     /\ \A f \in Range(EXIF_DATE_FIELDS) : TryFormats(media.tags[f], 1) # None)
        => media.date_taken = TryFormats(media.tags[EXIF_DATE_FIELDS[1]], 1)

\* C28: the constructor of a valid image with a sidecar writes every part the
\* sidecar holds: with a photoTakenTime, and whether or not there is a
\* geoDataExif, both date tags of the file hold the sidecar's date
C28_PartsWrittenIndependently ==
    (/\ media.subject = "TruImage"
     /\ media.pc = "built"
     /\ media.json.present
     /\ media.json.ts.kind = "int")
        => \A f \in Range(EXIF_DATE_FIELDS) : media.tags[f].date = media.json.ts.value

\* the dates the date fields of the file's metadata parse to
ParsedFields == {TryFormats(media.tags[f], 1) : f \in Range(EXIF_DATE_FIELDS)} \ {None}

====
